---- MODULE Spec2Model ----
(***************************************************************************)
(* The cart page of the storefront (Cart component) and the totals shown   *)
(* in the navigation header (Navbar).                                      *)
(*                                                                         *)
(* State: the cart held by the commerce backend, the cart the page shows   *)
(* (cartData, the result of the latest fetch), the invocations of the      *)
(* asynchronous handlers handleIncrement / handleDecrement / handleRemove, *)
(* the one handleCheckout pass with its category lookups, and a NavItem of  *)
(* the header with its hover timers.                                       *)
(* A step is one run-to-completion piece of a handler: from a click or the *)
(* settling of an awaited promise up to the next await.                    *)
(***************************************************************************)
EXTENDS Integers, Sequences, FiniteSets, TLC

\* ---------------------------------------------------------------- bounds
\* Largest quantity a line item reaches (handleIncrement is not offered above it).
MaxQty == 2
\* Handler invocations (increment / decrement / remove) that overlap in time.
MaxTasks == 2
\* Groups of a bundle definition (cart.menu.contents).
MaxGroups == 2
\* Largest required count of a group.
MaxCount == 2
\* Products of the cart whose totals are computed.
MaxItems == 2
\* Hover timers of a NavItem that are scheduled and have neither fired nor been
\* cleared.
MaxPending == 2

\* The cart entries (cart_id) of the backend cart, and the product categories
\* of the catalogue.
CartIds == {1, 2}
Categories == {1, 2}
Tasks == 1..MaxTasks

\* ------------------------------------------------------------- sequences
RECURSIVE SumSeq(_)
SumSeq(s) ==
    IF s = <<>> THEN 0 ELSE Head(s) + SumSeq(Tail(s))

RECURSIVE Flatten(_)
Flatten(ss) ==
    IF ss = <<>> THEN <<>> ELSE Head(ss) \o Flatten(Tail(ss))

Range(s) == {s[i] : i \in DOMAIN s}

\* All sequences over S of length at most n.
SeqsUpTo(S, n) == UNION {[1..k -> S] : k \in 0..n}

\* -------------------------------------------------------------- the cart
\* interface CartItem: cart_id, product_id, quantity. The backend gives every
\* cart entry its own product: entry e holds product e.
ProductOf(e) == e

CartItem(e, q) == [cart_id |-> e, product_id |-> ProductOf(e), quantity |-> q]

\* A cart (cartData.products) lists its entries in cart_id order. The carts a
\* page can start from: every entry present has quantity 1..MaxQty.
RECURSIVE CartsOver(_)
CartsOver(n) ==
    IF n = 0 THEN {<<>>}
    ELSE LET rest == CartsOver(n - 1)
         IN  rest \cup {Append(c, CartItem(n, q)) : c \in rest, q \in 1..MaxQty}

InitCarts == CartsOver(Cardinality(CartIds))

\* The rows of the rendered item list.
Rows == 1..Cardinality(CartIds)

VARIABLES
    server,        \* the backend's cart: sequence of CartItem
    cartData,      \* the cart the page shows: the result of the latest fetch
    menu,          \* cartData.cart.menu.contents: the bundle definition
    handlers,      \* handler invocations: Tasks -> record
    isCheckingOut, \* useState(false)
    checkout,      \* the handleCheckout pass: record
    route,         \* "cart" or "checkout" (router.push)
    totalsIn,      \* input of the totals computation: products and totals of cartData
    totalsOut,     \* what the cart page and the header display for totalsIn
    nav            \* a NavItem of the header, its hover timers, the pointer and the window

vars == <<server, cartData, menu, handlers, isCheckingOut, checkout, route,
          totalsIn, totalsOut, nav>>

cartVars == <<server, cartData, handlers>>
checkoutVars == <<menu, isCheckingOut, checkout, route>>
totalsVars == <<totalsIn, totalsOut>>
navVars == <<nav>>

\* ------------------------------------------------- the mutate interface
\* editProduct({id, quantity}) as the backend applies it: the entry's quantity
\* is replaced; an id the cart does not hold changes nothing.
ApplyEdit(cart, id, q) ==
    [i \in DOMAIN cart |->
        IF cart[i].cart_id = id THEN [cart[i] EXCEPT !.quantity = q] ELSE cart[i]]

\* removeProduct({id, quantity: 0}) as the backend applies it: the entry is dropped.
ApplyRemove(cart, id) ==
    SelectSeq(cart, LAMBDA it : it.cart_id # id)

ApplyRequest(cart, req) ==
    IF req.op = "edit" THEN ApplyEdit(cart, req.id, req.quantity)
    ELSE ApplyRemove(cart, req.id)

NoRequest == [op |-> "none", id |-> 0, quantity |-> 0]

IdleHandler ==
    [pc |-> "idle", action |-> "none", item |-> CartItem(0, 0), req |-> NoRequest,
     response |-> "none", refetches |-> 0, toast |-> "none"]

\* The three ways a mutation request ends: resolved with success = true,
\* resolved with success = false, rejected (unwrap() throws).
MutationOutcomes == {"ok", "nosuccess", "rejected"}

\* The request handleIncrement sends: quantity + 1.
IncrementRequest(item) ==
    [op |-> "edit", id |-> item.cart_id, quantity |-> item.quantity + 1]

\* A removal sent as an edit to quantity 0.
RemoveRequestAsEdit(item) ==
    [op |-> "edit", id |-> item.cart_id, quantity |-> 0]

\* The request handleRemove sends: removeProduct({ id, quantity: 0 }).
RemoveRequest(item) ==
    [op |-> "remove", id |-> item.cart_id, quantity |-> 0]

\* handleDecrement without its threshold: always an edit to quantity - 1.
DecrementRequestAlwaysEdit(item) ==
    [op |-> "edit", id |-> item.cart_id, quantity |-> item.quantity - 1]

\* The request handleDecrement sends: an edit to quantity - 1 when
\* Number(item.quantity) > 1, else what handleRemove sends.
DecrementRequest(item) ==
    IF item.quantity > 1
    THEN [op |-> "edit", id |-> item.cart_id, quantity |-> item.quantity - 1]
    ELSE RemoveRequest(item)

\* The invocations not in flight: each can be taken by the next click.
Free == {t \in Tasks : handlers[t].pc \in {"idle", "done"}}

\* A click on a rendered item's button starts a handler on the item of the
\* current render; the handler runs up to its first await. Invocations are
\* interchangeable: the click takes the first free one.
StartHandler(t, action, item, req) ==
    /\ route = "cart"
    /\ t \in Free
    /\ \A u \in Free : t <= u
    /\ handlers' = [handlers EXCEPT ![t] =
            [pc |-> "mutating", action |-> action, item |-> item, req |-> req,
             response |-> "none", refetches |-> 0, toast |-> "none"]]
    /\ UNCHANGED <<server, cartData, checkoutVars, totalsVars, navVars>>

handleIncrement(t, i) ==
    /\ i \in DOMAIN cartData
    /\ cartData[i].quantity < MaxQty
    /\ StartHandler(t, "increment", cartData[i], IncrementRequest(cartData[i]))

handleDecrement(t, i) ==
    /\ i \in DOMAIN cartData
    /\ StartHandler(t, "decrement", cartData[i], DecrementRequest(cartData[i]))

handleRemove(t, i) ==
    /\ i \in DOMAIN cartData
    /\ StartHandler(t, "remove", cartData[i], RemoveRequest(cartData[i]))

\* A handler that shows its notice as soon as the mutation settles and never
\* refetches.
AfterMutationNoRefetch(h, outcome) ==
    [IdleHandler EXCEPT !.pc = "done", !.response = outcome,
                        !.toast = IF outcome = "ok" THEN "success" ELSE "error"]

\* What the handler does when its mutation promise settles. Resolved (with
\* success true or false): it goes on to `await refetch()`. Rejected: the
\* catch block shows the failure notice and the handler ends. From here on
\* the handler reads only the response: its item and request are dropped.
AfterMutation(h, outcome) ==
    IF outcome = "rejected"
    THEN [IdleHandler EXCEPT !.pc = "done", !.response = outcome, !.toast = "error"]
    ELSE [IdleHandler EXCEPT !.pc = "refetching", !.response = outcome,
                             !.refetches = h.refetches + 1]

\* The backend answers the request of handler t. It applies the request only
\* when it answers success = true.
MutationSettles(t, outcome) ==
    /\ handlers[t].pc = "mutating"
    /\ server' = IF outcome = "ok" THEN ApplyRequest(server, handlers[t].req)
                 ELSE server
    /\ handlers' = [handlers EXCEPT ![t] = AfterMutation(handlers[t], outcome)]
    /\ UNCHANGED <<cartData, checkoutVars, totalsVars, navVars>>

\* The notice after `await refetch()`: by response.success.
ToastAfterRefetch(h) ==
    IF h.response = "ok" THEN "success" ELSE "error"

\* The cart shown once a refetch has settled: the fetched
\* cart, or the previous data when the fetch failed.
ShownAfterRefetch(fetched, ok) ==
    IF ok THEN fetched ELSE cartData

\* `await refetch()` of handler t settles: the query's data is replaced by the
\* backend's cart (the query keeps its previous data when the fetch fails;
\* refetch() itself does not throw), then the notice is shown.
RefetchSettles(t, ok) ==
    /\ handlers[t].pc = "refetching"
    /\ cartData' = ShownAfterRefetch(server, ok)
    /\ handlers' = [handlers EXCEPT ![t] =
            [IdleHandler EXCEPT !.pc = "done",
                                !.response = handlers[t].response,
                                !.refetches = handlers[t].refetches,
                                !.toast = ToastAfterRefetch(handlers[t])]]
    /\ UNCHANGED <<server, checkoutVars, totalsVars, navVars>>

MutateNext ==
    \/ \E t \in Tasks, i \in Rows : handleIncrement(t, i)
    \/ \E t \in Tasks, i \in Rows : handleDecrement(t, i)
    \/ \E t \in Tasks, i \in Rows : handleRemove(t, i)
    \/ \E t \in Tasks, o \in MutationOutcomes : MutationSettles(t, o)
    \/ \E t \in Tasks, ok \in BOOLEAN : RefetchSettles(t, ok)

\* ------------------------------------------------------------- checkout
\* A group of the bundle definition (an entry of cart.menu.contents): its name,
\* its count (<<>> when the field is absent, else <<n>>) and ids, the categories
\* whose products belong to it.
GroupNames == <<"Salat", "Dessert", "Beilage", "Getraenk">>

IdLists == {<<>>, <<1>>, <<2>>, <<1, 2>>}

Counts == {<<>>} \cup {<<n>> : n \in 0..MaxCount}

Bundles ==
    UNION {{[k \in 1..n |-> [name |-> GroupNames[k], count |-> c[k], ids |-> d[k]]] :
              c \in [1..n -> Counts], d \in [1..n -> IdLists]} : n \in 0..MaxGroups}

\* /api/get-products-by-category: the products of a category. Category 1 holds
\* product 1 and a product no cart entry has; category 2 holds products 2 and 1
\* (a product may be listed by several categories).
Catalog(c) ==
    IF c = 1 THEN <<[product_id |-> 1], [product_id |-> 3]>>
    ELSE <<[product_id |-> 2], [product_id |-> 1]>>

\* How one fetch(...).then(res => res.json()) of a category ends: a response
\* with its products, a response that carries no products field, a rejection.
LookupOutcomes == {"products", "noproducts", "reject"}

\* results.reduce(...): the products of the responses that carry some, in order.
categoryProducts(ids, outs) ==
    Flatten([j \in DOMAIN ids |->
                IF outs[j] = "products" THEN Catalog(ids[j]) ELSE <<>>])

\* content.count || 0
requiredCount(content) ==
    IF content.count = <<>> THEN 0 ELSE content.count[1]

\* A membership test that takes every line item for a member.
isInCategoryAlways(catProducts, product) == TRUE

\* categoryProducts.some(p => p.product_id.toString() === product.product_id.toString())
isInCategory(catProducts, product) ==
    \E j \in DOMAIN catProducts : catProducts[j].product_id = product.product_id

\* A count of the cart lines of the category instead of their quantities.
currentCountLines(products, catProducts) ==
    Cardinality({i \in DOMAIN products : isInCategory(catProducts, products[i])})

\* cartData.products.reduce((sum, product) => isInCategory ? sum + quantity : sum, 0)
RECURSIVE currentCount(_, _)
currentCount(products, catProducts) ==
    IF products = <<>> THEN 0
    ELSE currentCount(SubSeq(products, 1, Len(products) - 1), catProducts)
         + (IF isInCategory(catProducts, products[Len(products)])
            THEN products[Len(products)].quantity ELSE 0)

\* The comparison turned round, and the comparison that also blocks on equality.
GroupBlocksInverted(current, required) == current > required

GroupBlocksOnEqual(current, required) == current <= required

\* if (currentCount < requiredCount)
GroupBlocks(current, required) == current < required

NoNotice == [kind |-> "none", index |-> 0, name |-> "", requiredCount |-> 0, currentCount |-> 0]

GenericNotice == [NoNotice EXCEPT !.kind = "generic"]

IdleCheckout ==
    [pc |-> "idle", contents |-> <<>>, products |-> <<>>, index |-> 0,
     lookedUp |-> {}, resolved |-> <<>>, noProducts |-> FALSE, rejected |-> FALSE,
     outcome |-> "none", notice |-> NoNotice, running |-> 0]

\* A checkout button that is never disabled.
CheckoutNeverDisabled == TRUE

\* The checkout button: rendered when the cart shown has items, disabled
\* while isCheckingOut.
CheckoutEnabled == ~isCheckingOut

\* The loop of handleCheckout from group k on, up to its next await: the
\* lookups of group k are issued; past the last group router.push("/checkout").
EnterGroup(co, k) ==
    IF k > Len(co.contents)
    THEN [co EXCEPT !.pc = "done", !.index = k, !.outcome = "navigated",
                    !.running = co.running - 1]
    ELSE [co EXCEPT !.pc = "lookup", !.index = k, !.lookedUp = @ \cup {k}]

\* A click on the checkout button: handleCheckout up to its first await. It
\* works on the cartData of the render the click happened in.
handleCheckout ==
    /\ route = "cart"
    /\ cartData # <<>>
    /\ CheckoutEnabled
    /\ isCheckingOut' = TRUE
    /\ checkout' = EnterGroup([IdleCheckout EXCEPT !.contents = menu,
                                                   !.products = cartData,
                                                   !.running = checkout.running + 1], 1)
    /\ route' = IF checkout'.outcome = "navigated" THEN "checkout" ELSE route
    /\ UNCHANGED <<menu, cartVars, totalsVars, navVars>>

\* Promise.all of the current group's lookups rejects: the catch block.
LookupsReject(co) ==
    [co EXCEPT !.pc = "done", !.outcome = "error", !.notice = GenericNotice,
               !.rejected = TRUE, !.running = co.running - 1]

\* Promise.all of the current group's lookups resolves: the group is counted
\* and compared, and the loop goes on or ends.
LookupsResolve(co, outs) ==
    LET content  == co.contents[co.index]
        catProds == categoryProducts(content.ids, outs)
        required == requiredCount(content)
        current  == currentCount(co.products, catProds)
        seen     == [co EXCEPT !.resolved = Append(@, {p.product_id : p \in Range(catProds)}),
                               !.noProducts = @ \/ (\E j \in DOMAIN outs : outs[j] = "noproducts")]
    IN  IF GroupBlocks(current, required)
        THEN [seen EXCEPT !.pc = "done", !.outcome = "unsatisfied",
                          !.notice = [kind |-> "unsatisfied", index |-> co.index,
                                      name |-> content.name,
                                      requiredCount |-> required,
                                      currentCount |-> current],
                          !.running = co.running - 1]
        ELSE EnterGroup(seen, co.index + 1)

\* A pass whose catch block leaves isCheckingOut set.
CheckingOutAfterNoReset(co, was) ==
    IF co.outcome = "unsatisfied" THEN FALSE ELSE was

\* isCheckingOut once the pass has run up to its next await: setIsCheckingOut(false)
\* before the return of an unsatisfied group and in the catch block; left as
\* it is on router.push and while the pass goes on.
CheckingOutAfter(co, was) ==
    IF co.outcome \in {"unsatisfied", "error"} THEN FALSE ELSE was

\* The lookups of the current group settle, each in one of the three ways.
LookupsSettle ==
    /\ checkout.pc = "lookup"
    /\ \E outs \in [DOMAIN checkout.contents[checkout.index].ids -> LookupOutcomes] :
         checkout' = IF \E j \in DOMAIN outs : outs[j] = "reject"
                   THEN LookupsReject(checkout)
                   ELSE LookupsResolve(checkout, outs)
    /\ isCheckingOut' = CheckingOutAfter(checkout', isCheckingOut)
    /\ route' = IF checkout'.outcome = "navigated" THEN "checkout" ELSE route
    /\ UNCHANGED <<menu, cartVars, totalsVars, navVars>>

CheckoutNext ==
    \/ handleCheckout
    \/ LookupsSettle

\* --------------------------------------------------------------- totals
\* Texts are sequences of characters. Amounts are whole thousandths; NaN is
\* the amount that is no number.
Digits == <<"0", "1", "2", "3", "4", "5", "6", "7", "8", "9">>

IsDigit(c) == \E d \in DOMAIN Digits : Digits[d] = c

DigitValue(c) == (CHOOSE d \in DOMAIN Digits : Digits[d] = c) - 1

Thousand == 10 * 10 * 10

NaN == [nan |-> TRUE, amount |-> 0]

Num(a) == [nan |-> FALSE, amount |-> a]

RECURSIVE DigitsValue(_)
DigitsValue(s) ==
    IF s = <<>> THEN 0
    ELSE 10 * DigitsValue(SubSeq(s, 1, Len(s) - 1)) + DigitValue(s[Len(s)])

\* The longest prefix of s made of digits.
RECURSIVE DigitPrefix(_)
DigitPrefix(s) ==
    IF s # <<>> /\ IsDigit(Head(s)) THEN <<Head(s)>> \o DigitPrefix(Tail(s)) ELSE <<>>

RECURSIVE TrimLeft(_)
TrimLeft(s) ==
    IF s # <<>> /\ Head(s) = " " THEN TrimLeft(Tail(s)) ELSE s

\* The first three digits of a fraction, as thousandths.
FractionValue(f) ==
    LET padded == SubSeq(f \o <<"0", "0", "0">>, 1, 3)
    IN  DigitsValue(padded)

\* JavaScript's parseFloat on a text without sign or exponent: leading white
\* space is skipped, then the longest prefix `digits [. digits]` or `. digits`
\* is the number; whatever follows is ignored; no digit at all gives NaN.
parseFloat(text) ==
    LET s        == TrimLeft(text)
        whole    == DigitPrefix(s)
        rest     == SubSeq(s, Len(whole) + 1, Len(s))
        fraction == IF rest # <<>> /\ Head(rest) = "." THEN DigitPrefix(Tail(rest)) ELSE <<>>
    IN  IF whole = <<>> /\ fraction = <<>> THEN NaN
        ELSE Num(DigitsValue(whole) * Thousand + FractionValue(fraction))

\* text.replace(/[^0-9.]/g, ""): only digits and dots are kept.
StripToDigitsAndDots(text) ==
    SelectSeq(text, LAMBDA c : IsDigit(c) \/ c = ".")

\* text.replace(a, b) with a string pattern: the first occurrence of the
\* character a is replaced by the text b.
RECURSIVE ReplaceFirst(_, _, _)
ReplaceFirst(text, a, b) ==
    IF text = <<>> THEN <<>>
    ELSE IF Head(text) = a THEN b \o Tail(text)
    ELSE <<Head(text)>> \o ReplaceFirst(Tail(text), a, b)

\* x.toFixed(2): the amount rounded to hundredths (kept in thousandths), NaN as "NaN".
toFixed2(x) ==
    IF x.nan THEN NaN ELSE Num(((x.amount + 5) \div 10) * 10)

\* A product's price field: a text, or missing.
NoPrice == [defined |-> FALSE, text |-> <<>>]

Price(text) == [defined |-> TRUE, text |-> text]

\* Cart.cartItems: price: parseFloat(product.price || "0")
CartItemPrice(product) ==
    parseFloat(IF product.price.defined /\ product.price.text # <<>>
               THEN product.price.text ELSE <<"0">>)

\* (item.price || 0) * item.quantity
CartLineAmount(product) ==
    LET price == CartItemPrice(product)
    IN  IF price.nan THEN 0 ELSE price.amount * product.quantity

\* Cart: cartItems.reduce((sum, item) => sum + (item.price || 0) * item.quantity, 0)
RECURSIVE CartSum(_)
CartSum(products) ==
    IF products = <<>> THEN 0
    ELSE CartSum(SubSeq(products, 1, Len(products) - 1))
         + CartLineAmount(products[Len(products)])

\* cartData.totals.find(item => item.title === "Total"): the first such entry,
\* as a sequence of at most one element.
TotalItem(totals) ==
    LET hits == SelectSeq(totals, LAMBDA e : e.title = "Total")
    IN  IF hits = <<>> THEN <<>> ELSE <<Head(hits)>>

\* Cart: totalItem ? parseFloat(totalItem.text.replace(/[^0-9.]/g, "")) : subTotal
CartTotalPrice(totals, sum) ==
    LET item == TotalItem(totals)
    IN  IF item # <<>> THEN parseFloat(StripToDigitsAndDots(item[1].text)) ELSE Num(sum)

\* Navbar.getTotalPrice, one item: parseFloat(item.price?.replace("€", "").replace(",", "."))
NavbarLineAmount(product) ==
    LET price == IF product.price.defined
                 THEN parseFloat(ReplaceFirst(ReplaceFirst(product.price.text, "€", <<>>),
                                              ",", <<".">>))
                 ELSE NaN
    IN  IF price.nan THEN 0 ELSE price.amount * product.quantity

RECURSIVE NavbarSum(_)
NavbarSum(products) ==
    IF products = <<>> THEN 0
    ELSE NavbarSum(SubSeq(products, 1, Len(products) - 1))
         + NavbarLineAmount(products[Len(products)])

\* What the page and the header show for the fetched cart.
Displayed(in) ==
    LET sum == CartSum(in.products)
    IN  [rendered   |-> TRUE,
         subTotal   |-> toFixed2(Num(sum)),
         totalPrice |-> toFixed2(CartTotalPrice(in.totals, sum)),
         navbarTotal |-> toFixed2(Num(NavbarSum(in.products)))]

NotRendered ==
    [rendered |-> FALSE, subTotal |-> Num(0), totalPrice |-> Num(0), navbarTotal |-> Num(0)]

\* The useMemo of the cart page and getTotalPrice of the header run on the
\* fetched data.
Render ==
    /\ ~totalsOut.rendered
    /\ totalsOut' = Displayed(totalsIn)
    /\ UNCHANGED <<totalsIn, cartVars, checkoutVars, navVars>>

TotalsNext ==
    \/ Render

\* The price texts and total texts the backend sends in the checked runs.
PriceTexts ==
    { <<"1", "2", ",", "5", "0", " ", "€">>,
      <<"1", "2", ".", "5", "0">>,
      <<"1", "0", ",", "0", "0", " ", "€">>,
      <<"5", " ", "€">>,
      <<"€", "5", ".", "2", "0">>,
      <<"a", "b", "c">>,
      <<>> }

Prices == {NoPrice} \cup {Price(t) : t \in PriceTexts}

TotalTexts ==
    { <<"2", "0", ",", "0", "0", " ", "€">>,
      <<"2", "0", ".", "0", "0">>,
      <<"2", "5", ".", "0", "0", "€">>,
      <<"a", "b", "c">>,
      <<>> }

TotalsLists ==
    {<<>>, <<[title |-> "Sub-Total", text |-> <<"9">>]>>}
    \cup {<<[title |-> "Sub-Total", text |-> <<"9">>], [title |-> "Total", text |-> t]>> :
            t \in TotalTexts}

PricedProducts ==
    SeqsUpTo([price : Prices, quantity : 1..MaxQty], MaxItems)

\* -------------------------------------------------------------- NavItem
\* The hover handlers act only when window.innerWidth > Breakpoint.
Breakpoint == 768

Widths == {Breakpoint, Breakpoint + 1}

\* The ids setTimeout hands out; 0 stands for the null of timeoutRef.
TimerIds == 1..(MaxPending + 1)

\* A NavItem after its first render: closed, no timer, the pointer outside.
NavItemAt(width) ==
    [isOpen |-> FALSE, timeoutRef |-> 0, timers |-> {}, innerWidth |-> width,
     inside |-> FALSE, mounted |-> TRUE]

\* setTimeout returns an id no pending timer has and that differs from the
\* id timeoutRef still holds.
NewTimer(n) ==
    CHOOSE id \in TimerIds :
        /\ id \notin n.timers \cup {n.timeoutRef}
        /\ \A other \in TimerIds :
              other \notin n.timers \cup {n.timeoutRef} => id <= other

\* clearTimeout(timeoutRef.current), when timeoutRef.current is set: the timer
\* of that id is no longer pending; the ref keeps the id.
ClearCurrent(n) ==
    IF n.timeoutRef # 0 THEN n.timers \ {n.timeoutRef} ELSE n.timers

\* handleMouseEnter: on a wide window the timer of timeoutRef is cleared and
\* the dropdown opened; on a narrow one nothing happens.
AfterMouseEnter(n) ==
    IF n.innerWidth > Breakpoint
    THEN [n EXCEPT !.inside = TRUE, !.timers = ClearCurrent(n), !.isOpen = TRUE]
    ELSE [n EXCEPT !.inside = TRUE]

\* handleMouseLeave: on a wide window a timer that closes the dropdown is
\* scheduled and timeoutRef is overwritten with its id.
AfterMouseLeave(n) ==
    IF n.innerWidth > Breakpoint
    THEN [n EXCEPT !.inside = FALSE, !.timers = @ \cup {NewTimer(n)},
                   !.timeoutRef = NewTimer(n)]
    ELSE [n EXCEPT !.inside = FALSE]

\* The pointer enters the item.
handleMouseEnter ==
    /\ nav.mounted
    /\ ~nav.inside
    /\ nav' = AfterMouseEnter(nav)
    /\ UNCHANGED <<cartVars, checkoutVars, totalsVars>>

\* The pointer leaves the item.
handleMouseLeave ==
    /\ nav.mounted
    /\ nav.inside
    /\ nav.innerWidth > Breakpoint => Cardinality(nav.timers) < MaxPending
    /\ nav' = AfterMouseLeave(nav)
    /\ UNCHANGED <<cartVars, checkoutVars, totalsVars>>

\* handleClick: the button toggles the dropdown.
handleClick ==
    /\ nav.mounted
    /\ nav.inside
    /\ nav' = [nav EXCEPT !.isOpen = ~nav.isOpen]
    /\ UNCHANGED <<cartVars, checkoutVars, totalsVars>>

\* handleClickOutside: a mousedown outside the dropdown closes it.
handleClickOutside ==
    /\ nav.mounted
    /\ nav.isOpen
    /\ nav' = [nav EXCEPT !.isOpen = FALSE]
    /\ UNCHANGED <<cartVars, checkoutVars, totalsVars>>

\* The callback of a pending timer runs, some time after it was scheduled:
\* setIsOpen(false), which has no effect on an unmounted component.
TimerFires(id) ==
    /\ id \in nav.timers
    /\ nav' = [nav EXCEPT !.timers = @ \ {id},
                          !.isOpen = IF nav.mounted THEN FALSE ELSE @]
    /\ UNCHANGED <<cartVars, checkoutVars, totalsVars>>

\* The window is resized.
Resize(width) ==
    /\ width # nav.innerWidth
    /\ nav' = [nav EXCEPT !.innerWidth = width]
    /\ UNCHANGED <<cartVars, checkoutVars, totalsVars>>

\* The component is unmounted: the cleanup of the effect clears the timer of
\* timeoutRef.
Unmount ==
    /\ nav.mounted
    /\ nav' = [nav EXCEPT !.mounted = FALSE, !.inside = FALSE,
                          !.timers = ClearCurrent(nav)]
    /\ UNCHANGED <<cartVars, checkoutVars, totalsVars>>

NavNext ==
    \/ handleMouseEnter
    \/ handleMouseLeave
    \/ handleClick
    \/ handleClickOutside
    \/ \E id \in TimerIds : TimerFires(id)
    \/ \E width \in Widths : Resize(width)
    \/ Unmount

\* ------------------------------------------------------- specifications
InitHandlers == handlers = [t \in Tasks |-> IdleHandler]

InitCheckout ==
    /\ isCheckingOut = FALSE
    /\ checkout = IdleCheckout
    /\ route = "cart"

InitTotals ==
    /\ totalsIn = [products |-> <<>>, totals |-> <<>>]
    /\ totalsOut = NotRendered

\* The header's NavItem on a wide window, untouched.
InitNav == nav = NavItemAt(Breakpoint + 1)

\* The cart page with its quantity buttons; no bundle, no checkout.
MutateInit ==
    /\ server \in InitCarts
    /\ cartData = server
    /\ menu = <<>>
    /\ InitHandlers
    /\ InitCheckout
    /\ InitTotals
    /\ InitNav

MutateSpec ==
    MutateInit /\ [][MutateNext]_vars

\* The checkout button on every cart and bundle definition; no quantity changes.
CheckoutInit ==
    /\ server \in InitCarts
    /\ cartData = server
    /\ menu \in Bundles
    /\ InitHandlers
    /\ InitCheckout
    /\ InitTotals
    /\ InitNav

CheckoutSpec ==
    CheckoutInit /\ [][CheckoutNext]_vars

\* The totals of every priced cart.
TotalsInit ==
    /\ server = <<>>
    /\ cartData = <<>>
    /\ menu = <<>>
    /\ InitHandlers
    /\ InitCheckout
    /\ totalsIn \in [products : PricedProducts, totals : TotalsLists]
    /\ totalsOut = NotRendered
    /\ InitNav

TotalsSpec ==
    TotalsInit /\ [][TotalsNext]_vars

\* The checkout button when every lookup eventually resolves or rejects, on
\* the bundles whose groups look up no category or both categories.
FairBundles ==
    {b \in Bundles : \A k \in DOMAIN b : b[k].ids \in {<<>>, <<1, 2>>}}

CheckoutFairInit ==
    /\ server \in InitCarts
    /\ cartData = server
    /\ menu \in FairBundles
    /\ InitHandlers
    /\ InitCheckout
    /\ InitTotals
    /\ InitNav

CheckoutFairSpec ==
    CheckoutFairInit /\ [][CheckoutNext]_vars /\ WF_vars(LookupsSettle)

\* A NavItem of the header, on a wide or a narrow window.
NavInit ==
    /\ server = <<>>
    /\ cartData = <<>>
    /\ menu = <<>>
    /\ InitHandlers
    /\ InitCheckout
    /\ totalsIn = [products |-> <<>>, totals |-> <<>>]
    /\ totalsOut = NotRendered
    /\ nav \in {NavItemAt(width) : width \in Widths}

NavSpec ==
    NavInit /\ [][NavNext]_vars

\* The whole page.
Init ==
    /\ server \in InitCarts
    /\ cartData = server
    /\ menu \in Bundles
    /\ InitHandlers
    /\ InitCheckout
    /\ InitTotals
    /\ InitNav

Next ==
    \/ MutateNext
    \/ CheckoutNext
    \/ TotalsNext
    \/ NavNext

Spec ==
    Init /\ [][Next]_vars

\* The checkout button together with the quantity buttons, which stay enabled
\* while a pass runs: bundles of one group over category 1 with a required
\* count of at least 1.
RaceBundles ==
    {<<[name |-> GroupNames[1], count |-> <<n>>, ids |-> <<1>>]>> : n \in 1..MaxCount}

RaceInit ==
    /\ server \in InitCarts
    /\ cartData = server
    /\ menu \in RaceBundles
    /\ InitHandlers
    /\ InitCheckout
    /\ InitTotals
    /\ InitNav

RaceNext ==
    \/ MutateNext
    \/ CheckoutNext

RaceSpec ==
    RaceInit /\ [][RaceNext]_vars

\* The cart page on which only the increment buttons are clicked and the
\* backend answers every edit with success = true.
IncrementNext ==
    \/ \E t \in Tasks, i \in Rows : handleIncrement(t, i)
    \/ \E t \in Tasks : MutationSettles(t, "ok")
    \/ \E t \in Tasks, ok \in BOOLEAN : RefetchSettles(t, ok)

IncrementSpec ==
    MutateInit /\ [][IncrementNext]_vars

\* ---------------------------------------------------- checkout properties
\* The reference the validation is compared with: a group's count is the sum
\* of the quantities of the line items whose product is in its membership set.
RefCount(products, members) ==
    SumSeq([i \in DOMAIN products |->
               IF products[i].product_id \in members THEN products[i].quantity ELSE 0])

RefRequired(content) ==
    IF content.count = <<>> THEN 0 ELSE content.count[1]

\* The groups the pass has evaluated, and whether such a group is unsatisfied.
Evaluated == 1..Len(checkout.resolved)

Unmet(k) ==
    RefCount(checkout.products, checkout.resolved[k]) < RefRequired(checkout.contents[k])

UnmetNotice(k) ==
    [kind |-> "unsatisfied", index |-> k, name |-> checkout.contents[k].name,
     requiredCount |-> RefRequired(checkout.contents[k]),
     currentCount |-> RefCount(checkout.products, checkout.resolved[k])]

\* C1: handleCheckout navigates to /checkout only when every group of the
\* bundle passes; when an evaluated group has currentCount < requiredCount
\* there is no navigation and the notice names that group, its required and
\* its current count; a pass that ends with every group passing and no lookup
\* rejected (an empty bundle definition included) has navigated.
C1_CheckoutGatedByValidation ==
    /\ route = "checkout" =>
          /\ checkout.outcome = "navigated"
          /\ Len(checkout.resolved) = Len(checkout.contents)
          /\ \A k \in Evaluated : ~Unmet(k)
    /\ \A k \in Evaluated : Unmet(k) =>
          /\ route = "cart"
          /\ checkout.outcome = "unsatisfied"
          /\ checkout.notice = UnmetNotice(k)
    /\ (checkout.pc = "done" /\ ~checkout.rejected /\ \A k \in Evaluated : ~Unmet(k)) =>
          route = "checkout"

\* C1 witness: a pass blocked by its second group, with 1 selected of 2
\* required, after the first group passed.
C1_Witness ==
    /\ checkout.outcome = "unsatisfied"
    /\ checkout.notice.index = 2
    /\ checkout.notice.currentCount = 1
    /\ checkout.notice.requiredCount = 2

\* The reference validation over the evaluated groups from group k on: the
\* first group in definition order whose count is below its required count,
\* else satisfied.
RECURSIVE RefValidate(_)
RefValidate(k) ==
    IF k > Len(checkout.contents) THEN [NoNotice EXCEPT !.kind = "satisfied"]
    ELSE IF k > Len(checkout.resolved) THEN [NoNotice EXCEPT !.kind = "unevaluated"]
    ELSE IF Unmet(k) THEN UnmetNotice(k)
    ELSE RefValidate(k + 1)

\* C2: the result of a validation pass that ends without a rejected lookup
\* equals the reference: satisfied (navigation) iff every group's sum of member
\* quantities reaches its required count, else the first unsatisfied group in
\* definition order with its required and current count; the groups looked up
\* are exactly those up to the reported one, and while the pass runs the groups
\* before the current one have all passed.
C2_ValidationEqualsReference ==
    /\ (checkout.pc = "done" /\ checkout.outcome # "error") =>
          LET ref == RefValidate(1)
          IN  /\ ref.kind \in {"satisfied", "unsatisfied"}
              /\ ref.kind = "satisfied" =>
                    /\ checkout.outcome = "navigated"
                    /\ checkout.notice = NoNotice
                    /\ checkout.lookedUp = 1..Len(checkout.contents)
              /\ ref.kind = "unsatisfied" =>
                    /\ checkout.outcome = "unsatisfied"
                    /\ checkout.notice = ref
                    /\ checkout.lookedUp = 1..ref.index
                    /\ Len(checkout.resolved) = ref.index
    /\ checkout.pc = "lookup" =>
          /\ checkout.lookedUp = 1..checkout.index
          /\ Len(checkout.resolved) = checkout.index - 1
          /\ \A k \in Evaluated : ~Unmet(k)

\* C2 witness: the first of two groups is reported with current count 1 of 2
\* required, for a cart of two line items of which one is in no group, and the
\* second group was never looked up.
C2_Witness ==
    /\ checkout.outcome = "unsatisfied"
    /\ Len(checkout.contents) = 2
    /\ checkout.notice.index = 1
    /\ checkout.notice.requiredCount = 2
    /\ checkout.notice.currentCount = 1
    /\ checkout.lookedUp = {1}
    /\ checkout.resolved[1] = {1, 3}
    /\ Len(checkout.products) = 2

\* C3 (as claimed): whenever a category lookup of the pass failed (it was
\* rejected, or its response carried no product list) the pass is aborted: the
\* generic retry notice, no navigation, no "select at least N" notice.
C3_LookupFailureAborts ==
    (checkout.rejected \/ checkout.noProducts) =>
        /\ checkout.outcome = "error"
        /\ checkout.notice = GenericNotice
        /\ route = "cart"

\* C7: at most one validation pass runs at any time, and while it runs the
\* checkout button is disabled (isCheckingOut), so no second click starts or
\* replaces a pass.
C7_OnePassAtATime ==
    /\ checkout.running <= 1
    /\ checkout.pc = "lookup" =>
          /\ checkout.running = 1
          /\ isCheckingOut
          /\ ~ENABLED handleCheckout
    /\ checkout.pc # "lookup" => checkout.running = 0

\* C7 witness: a pass in flight at the lookups of its second group, the button
\* disabled.
C7_Witness ==
    /\ checkout.pc = "lookup"
    /\ checkout.index = 2
    /\ isCheckingOut

\* C10: a group whose required count is 0 or absent never blocks: once it is
\* evaluated, whatever its membership and the line items, it is not the group
\* reported, and the pass has gone on to the next group (or, after the last
\* group, to /checkout).
C10_ZeroRequiredNeverBlocks ==
    \A k \in Evaluated :
        RefRequired(checkout.contents[k]) = 0 =>
            /\ ~(checkout.outcome = "unsatisfied" /\ checkout.notice.index = k)
            /\ checkout.index > k
            /\ k = Len(checkout.contents) => route = "checkout"

\* C10 witness: a group without a count and with an empty membership set was
\* evaluated against a cart with items, and the pass went on to a second group.
C10_Witness ==
    /\ Len(checkout.resolved) >= 1
    /\ checkout.contents[1].count = <<>>
    /\ checkout.resolved[1] = {}
    /\ checkout.products # <<>>
    /\ checkout.pc = "lookup"
    /\ checkout.index = 2

\* The evaluated groups whose resolved membership set is empty.
EmptyMembership(k) == checkout.resolved[k] = {}

\* C11 (as claimed): for an evaluated group whose resolved membership set is
\* empty no line item counts (currentCount = 0) and the result for that group
\* is Unsatisfied, whatever its required count.
C11_EmptyMembershipUnsatisfied ==
    \A k \in Evaluated : EmptyMembership(k) =>
        /\ RefCount(checkout.products, checkout.resolved[k]) = 0
        /\ checkout.outcome = "unsatisfied"
        /\ checkout.notice.index = k
        /\ checkout.notice.currentCount = 0

\* C11 (amended): for an evaluated group whose resolved membership set is
\* empty no line item counts; the group is reported Unsatisfied, with current
\* count 0, exactly when its required count is at least 1; with required count
\* 0 or absent it passes and the pass goes on; and evaluating it never raises:
\* the pass ends in the error branch only when a lookup was rejected.
C11_EmptyMembershipCountsZero ==
    /\ \A k \in Evaluated : EmptyMembership(k) =>
          /\ RefCount(checkout.products, checkout.resolved[k]) = 0
          /\ RefRequired(checkout.contents[k]) >= 1 =>
                /\ checkout.pc = "done"
                /\ checkout.outcome = "unsatisfied"
                /\ checkout.notice =
                      [kind |-> "unsatisfied", index |-> k,
                       name |-> checkout.contents[k].name,
                       requiredCount |-> RefRequired(checkout.contents[k]),
                       currentCount |-> 0]
                /\ route = "cart"
          /\ RefRequired(checkout.contents[k]) = 0 =>
                /\ checkout.index > k
                /\ ~(checkout.outcome = "unsatisfied" /\ checkout.notice.index = k)
    /\ checkout.outcome = "error" => checkout.rejected

\* C11 witness: the second group of a bundle resolved to an empty membership
\* set (its lookup answered without products) against a cart of two line
\* items, and is reported with 0 selected of 1 required.
C11_Witness ==
    /\ Len(checkout.resolved) = 2
    /\ checkout.resolved[2] = {}
    /\ checkout.contents[2].ids # <<>>
    /\ Len(checkout.products) = 2
    /\ checkout.outcome = "unsatisfied"
    /\ checkout.notice.index = 2
    /\ checkout.notice.requiredCount = 1
    /\ checkout.notice.currentCount = 0

\* A cart meets the minimum count of every group of the pass co, by the
\* memberships the pass resolved.
BackendMeetsBundle(cart, co) ==
    /\ Len(co.resolved) = Len(co.contents)
    /\ \A k \in DOMAIN co.resolved :
          RefCount(cart, co.resolved[k]) >= RefRequired(co.contents[k])

\* C13 (as claimed): in the step in which handleCheckout navigates to
\* /checkout, the backend cart meets every group's minimum count, also when
\* increment, decrement or remove actions were triggered and completed while
\* the lookups of the pass were in flight.
C13_NavigationOnCurrentCart ==
    [][ (route = "cart" /\ route' = "checkout") => BackendMeetsBundle(server', checkout') ]_vars

\* How a pass that has ended shows its one outcome.
EndedNavigated ==
    /\ checkout.outcome = "navigated"
    /\ route = "checkout"
    /\ checkout.notice = NoNotice

EndedUnsatisfied ==
    /\ checkout.outcome = "unsatisfied"
    /\ route = "cart"
    /\ checkout.notice.kind = "unsatisfied"

EndedError ==
    /\ checkout.outcome = "error"
    /\ route = "cart"
    /\ checkout.notice = GenericNotice

\* C15: when every lookup eventually resolves or rejects, every checkout
\* attempt eventually ends, in exactly one of navigation to /checkout, the
\* validation-failure notice, or the generic error notice; after the two
\* outcomes that do not navigate isCheckingOut is false again and the button
\* can be clicked again, so the button never stays disabled while the page
\* shown is the cart page (it is disabled only while a pass is at its lookups,
\* which ends, or after the navigation).
C15_CheckoutEventuallyEnds ==
    /\ (checkout.pc = "lookup") ~> (checkout.pc = "done")
    /\ [](checkout.pc = "done" =>
            /\ EndedNavigated \/ EndedUnsatisfied \/ EndedError
            /\ (EndedUnsatisfied \/ EndedError) =>
                  /\ ~isCheckingOut
                  /\ ENABLED handleCheckout)
    /\ [](isCheckingOut => (checkout.pc = "lookup" \/ route = "checkout"))

\* C15 witness: a pass has ended in the catch block after the lookups of its
\* second group, with the generic notice, and the button is enabled again.
C15_Witness ==
    /\ checkout.pc = "done"
    /\ checkout.outcome = "error"
    /\ checkout.index = 2
    /\ checkout.notice = GenericNotice
    /\ ~isCheckingOut
    /\ route = "cart"

\* ------------------------------------------------- cart mutation properties
\* The handlers whose request is in flight.
Sent(t) == handlers[t].pc = "mutating"

\* C4 (as claimed): a decrement of an item with quantity 1 or lower becomes a
\* removal, and no request sent to the mutate interface, edit or remove,
\* carries quantity 0.
C4_NoRequestCarriesZero ==
    \A t \in Tasks : Sent(t) =>
        /\ (handlers[t].action = "decrement" /\ handlers[t].item.quantity <= 1) =>
              handlers[t].req.op = "remove"
        /\ handlers[t].req.quantity # 0

\* C4 (amended): a decrement of an item with quantity 1 or lower becomes a
\* removal of that cart entry, no edit request carries a quantity below 1, and
\* every remove request carries quantity 0.
C4_DecrementAtOneRemoves ==
    \A t \in Tasks : Sent(t) =>
        /\ (handlers[t].action = "decrement" /\ handlers[t].item.quantity <= 1) =>
              handlers[t].req = [op |-> "remove", id |-> handlers[t].item.cart_id,
                                 quantity |-> 0]
        /\ handlers[t].req.op = "edit" => handlers[t].req.quantity >= 1
        /\ handlers[t].req.op = "remove" => handlers[t].req.quantity = 0

\* C4 witness: a decrement clicked on an item shown with quantity 1 has sent a
\* remove request.
C4_Witness ==
    \E t \in Tasks :
        /\ handlers[t].pc = "mutating"
        /\ handlers[t].action = "decrement"
        /\ handlers[t].item.quantity = 1
        /\ handlers[t].req.op = "remove"

\* The order of a handler's steps.
HandlerSteps ==
    { <<"idle", "mutating">>, <<"done", "mutating">>, <<"mutating", "refetching">>,
      <<"mutating", "done">>, <<"refetching", "done">> }

\* C5: a handler submits its mutation, awaits it, and only then refetches: its
\* steps follow that order; it refetches exactly once when the mutation promise
\* resolved and not at all before; and the cart shown changes only in the step
\* in which a refetch settles, to the cart the backend holds.
C5_MutateAwaitRefetch ==
    [][ /\ \A t \in Tasks :
              /\ handlers'[t].pc # handlers[t].pc =>
                    <<handlers[t].pc, handlers'[t].pc>> \in HandlerSteps
              /\ handlers'[t].pc = "mutating" =>
                    handlers'[t].refetches = 0 /\ handlers'[t].response = "none"
              /\ handlers'[t].pc = "refetching" =>
                    /\ handlers'[t].refetches = 1
                    /\ handlers'[t].response \in {"ok", "nosuccess"}
              /\ (handlers[t].pc = "mutating" /\ handlers'[t].response = "ok") =>
                    handlers'[t].pc = "refetching"
              /\ handlers'[t].pc = "done" =>
                    handlers'[t].refetches =
                        IF handlers'[t].response = "rejected" THEN 0 ELSE 1
        /\ cartData' # cartData =>
              /\ cartData' = server
              /\ \E t \in Tasks : /\ handlers[t].pc = "refetching"
                                  /\ handlers'[t].pc = "done"
      ]_vars

\* C5 witness: a handler whose mutation succeeded has ended after its one
\* refetch, and the cart shown is the backend's changed cart.
C5_Witness ==
    \E t \in Tasks :
        /\ handlers[t].pc = "done"
        /\ handlers[t].response = "ok"
        /\ handlers[t].refetches = 1
        /\ handlers[t].toast = "success"
        /\ cartData = server
        /\ cartData # <<>>
        /\ cartData[1].quantity = 2

\* C6 (as claimed): when the mutation of a handler fails (rejected, or answered
\* with success = false), the handler ends with the cart shown as it was (no
\* refetch result replaces it) and with the failure notice.
C6_FailedMutationKeepsCart ==
    [][ \A t \in Tasks :
            ( /\ handlers[t].pc # "done"
              /\ handlers'[t].pc = "done"
              /\ handlers'[t].response \in {"nosuccess", "rejected"} ) =>
                /\ cartData' = cartData
                /\ handlers'[t].toast = "error"
      ]_vars

\* Every line item of a cart has quantity at least 1, and no cart entry is
\* listed twice.
QuantitiesPositive(cart) ==
    /\ \A i \in DOMAIN cart : cart[i].quantity >= 1
    /\ \A i, j \in DOMAIN cart : cart[i].cart_id = cart[j].cart_id => i = j

Holds(cart, id) == \E i \in DOMAIN cart : cart[i].cart_id = id

\* C12: from a cart whose line items all have quantity >= 1, with a backend
\* that applies each answered request as sent, after any sequence of
\* increment, decrement and remove actions (overlapping ones included) every
\* line item of the backend cart and of the cart shown has quantity >= 1; and
\* when the request of a decrement clicked at quantity 1, or of a remove, is
\* applied, the entry is absent from the backend cart, not kept at quantity 0.
C12_PresentItemsPositive ==
    /\ [](QuantitiesPositive(server) /\ QuantitiesPositive(cartData))
    /\ [][ \A t \in Tasks :
              ( /\ handlers[t].pc = "mutating"
                /\ handlers'[t].response = "ok"
                /\ \/ handlers[t].action = "remove"
                   \/ handlers[t].action = "decrement" /\ handlers[t].item.quantity <= 1 ) =>
                  ~Holds(server', handlers[t].item.cart_id)
          ]_vars

\* C12 witness: two decrements were clicked on entry 1 shown with quantity 1;
\* the first was applied and the backend cart no longer holds the entry, while
\* the second is still in flight and the cart shown still lists the entry.
C12_Witness ==
    \E t, u \in Tasks :
        /\ handlers[t].pc = "refetching"
        /\ handlers[t].response = "ok"
        /\ handlers[u].pc = "mutating"
        /\ handlers[u].action = "decrement"
        /\ handlers[u].item = CartItem(1, 1)
        /\ ~Holds(server, 1)
        /\ Holds(cartData, 1)

\* The quantity a cart holds of an entry (0 when it does not hold the entry).
QuantityOf(cart, id) ==
    SumSeq([i \in DOMAIN cart |-> IF cart[i].cart_id = id THEN cart[i].quantity ELSE 0])

\* C14 (as claimed): with only increments clicked and all of them answered
\* with success, every increment that completes raises the backend quantity of
\* its entry by exactly one, so that k increments end at the initial quantity
\* + k, also when an increment is clicked before the refetch of an earlier one
\* has updated the quantity shown.
C14_IncrementsAddUp ==
    [][ \A t \in Tasks :
            ( /\ handlers[t].pc = "mutating"
              /\ handlers[t].action = "increment"
              /\ handlers'[t].response = "ok" ) =>
                QuantityOf(server', handlers[t].item.cart_id)
                    = QuantityOf(server, handlers[t].item.cart_id) + 1
      ]_vars

\* -------------------------------------------------------- totals properties
\* The price parsing the claims describe: every character that is no digit and
\* no separator is dropped, a comma is read as a dot, and the rest is a number
\* when it is digits with at most one dot among them.
RefNormalised(text) ==
    LET kept == SelectSeq(text, LAMBDA c : IsDigit(c) \/ c = "," \/ c = ".")
    IN  [i \in DOMAIN kept |-> IF kept[i] = "," THEN "." ELSE kept[i]]

RefIsNumber(text) ==
    LET n == RefNormalised(text)
    IN  /\ \E i \in DOMAIN n : IsDigit(n[i])
        /\ Cardinality({i \in DOMAIN n : n[i] = "."}) <= 1

RefAmount(text) == parseFloat(RefNormalised(text)).amount

\* parsePrice of the claims: 0 for a malformed or missing price.
RefParsePrice(price) ==
    IF price.defined /\ RefIsNumber(price.text) THEN RefAmount(price.text) ELSE 0

RefSubtotal(products) ==
    SumSeq([i \in DOMAIN products |->
               RefParsePrice(products[i].price) * products[i].quantity])

\* C8 (as claimed): the total shown is the backend's "Total" text parsed as a
\* currency amount (comma or dot as decimal separator) whenever that text is
\* there and parses, and the subtotal shown in every other case.
C8_TotalPrefersBackendTotal ==
    totalsOut.rendered =>
        LET item == TotalItem(totalsIn.totals)
        IN  totalsOut.totalPrice =
                IF item # <<>> /\ RefIsNumber(item[1].text)
                THEN toFixed2(Num(RefAmount(item[1].text)))
                ELSE totalsOut.subTotal

\* C9 (as claimed): the subtotal shown on the cart page is the sum over the
\* items of parsePrice(price) * quantity, with a currency symbol and a comma or
\* dot separator accepted and a malformed or missing price counted as 0.
C9_SubtotalSumsParsedPrices ==
    totalsOut.rendered =>
        totalsOut.subTotal = toFixed2(Num(RefSubtotal(totalsIn.products)))

\* C16 (as claimed): for every list of cart products the total shown in the
\* navigation header (Navbar.getTotalPrice) equals the subtotal shown on the
\* cart page (Cart subTotal), both to two decimals.
C16_NavbarEqualsCartSubtotal ==
    totalsOut.rendered => totalsOut.navbarTotal = totalsOut.subTotal

\* ------------------------------------------------------- NavItem properties
\* C17 (as claimed): on a wide window a mouse-leave schedules the close and a
\* mouse-enter before the timer fires cancels it: in every interleaving of
\* enter, leave, timer-fire and width changes no hover timer closes the
\* dropdown while the pointer is inside the item, and none fires after the
\* component is unmounted.
C17_NoCloseInsideNoFireUnmounted ==
    [][ \A id \in TimerIds :
            TimerFires(id) =>
                /\ nav.mounted
                /\ (nav.isOpen /\ ~nav'.isOpen) => ~nav.inside
      ]_vars

====
